---- MODULE Spec2Model ----
(***************************************************************************)
(* Model of the wage engine: the payroll engine (engine.rs), the built-in  *)
(* tax calculators (tax.rs) and the HTTP boundary (api.rs).                *)
(*                                                                         *)
(* Representation.                                                         *)
(*  - A region code, a version and a registry key are strings.  A string   *)
(*    is modelled as the sequence of its "-"-separated segments, so        *)
(*    "US-OK" is <<"US","OK">> and format!("{}-{}", a, b) is a \o b.       *)
(*  - A pay-item description is a sequence of characters, so that          *)
(*    to_lowercase is computed character by character.                     *)
(*  - Amounts (f64 in the code) are integers; a rate is an integer         *)
(*    multiplier.  Sums are folded left to right as Iterator::sum does.    *)
(*  - Option<T> is [some |-> FALSE] or [some |-> TRUE, val |-> v].         *)
(*  - A HashMap is a function; its DOMAIN is the key set.                  *)
(***************************************************************************)
EXTENDS Integers, Sequences, FiniteSets, TLC

VARIABLES
    laws,        \* api.rs:29   Vec<TaxLaw> returned by load_tax_laws_from_dir
    boot,        \* api.rs:27   position of build_router: "start" | "serving" | "library"
    tax_laws,    \* api.rs:21 / engine.rs:24   the tax-law registry
    calculators, \* api.rs:22 / engine.rs:25   the calculator registry
    readers,     \* api.rs:66-67  per registry lock, the handlers holding a read guard
    writer,      \* api.rs:21-22  per registry lock, whether a write guard is held
    writes,      \* number of write guards taken so far
    pc,          \* per run: position of calculate_handler / run_payroll
    input,       \* per run: the PayRunInput
    pool,        \* per run: number of rayon workers serving the parallel iterator
    pending,     \* per run: indices of employees not yet taken by a worker
    claimed,     \* per run: worker -> index it is computing (0 = none)
    slots,       \* per run: index -> computed row (the indexed collect buffer)
    completion,  \* per run: indices in the order their closures finished
    outcome,     \* per run: the Result<PayRunResult> returned by run_payroll
    status       \* per run: HTTP status sent by calculate_handler (0 = none yet)

vars == <<laws, boot, tax_laws, calculators, readers, writer, writes, pc, input,
          pool, pending, claimed, slots, completion, outcome, status>>

registryVars == <<laws, boot, tax_laws, calculators>>
lockVars == <<readers, writer, writes>>
workVars == <<pending, claimed, slots, completion>>

-----------------------------------------------------------------------------
(* Bounds *)

MaxEmployees == 2
MaxItems == 3
MaxWorkers == 2
MaxLaws == 2
MaxWrites == 1

Runs == {1, 2}
Registries == {"tax_laws", "calculators"}

-----------------------------------------------------------------------------
(* Option and HashMap helpers *)

None == [some |-> FALSE]
Some(v) == [some |-> TRUE, val |-> v]
OrElse(a, b) == IF a.some THEN a ELSE b

MapGet(m, k) == IF k \in DOMAIN m THEN Some(m[k]) ELSE None
MapInsert(m, k, v) == [x \in DOMAIN m \cup {k} |-> IF x = k THEN v ELSE m[x]]
MapRemove(m, k) == [x \in DOMAIN m \ {k} |-> m[x]]
EmptyMap == [x \in {} |-> x]

SeqsUpTo(S, n) == UNION {[1..k -> S] : k \in 0..n}

-----------------------------------------------------------------------------
(* Strings *)

US_FED == <<"US", "FED">>
US_OK == <<"US", "OK">>
US_ZZ == <<"US", "ZZ">>

HOURS == <<"h", "o", "u", "r", "s">>

LowerChar(c) ==
    CASE c = "H" -> "h"
      [] c = "O" -> "o"
      [] c = "U" -> "u"
      [] c = "R" -> "r"
      [] c = "S" -> "s"
      [] c = "T" -> "t"
      [] c = "I" -> "i"
      [] c = "P" -> "p"
      [] OTHER -> c

to_lowercase(s) == [i \in 1..Len(s) |-> LowerChar(s[i])]

FormatKey(region, version) == region \o version

-----------------------------------------------------------------------------
(* tax.rs: the built-in calculators *)

JsonNumber(n) == [kind |-> "number", val |-> n]
JsonString == [kind |-> "string"]

RuleRate(rules) ==
    IF "rate" \in DOMAIN rules /\ rules["rate"].kind = "number"
    THEN rules["rate"].val
    ELSE 0

UsFederalCalculator == [type |-> "UsFederalCalculator"]
FlatStateCalculator(region) == [type |-> "FlatStateCalculator", region |-> region]

region_code(calc) ==
    IF calc.type = "UsFederalCalculator" THEN US_FED ELSE calc.region

calculate(calc, employee, gross, law) ==
    CASE calc.type = "UsFederalCalculator" -> gross * RuleRate(law.rules)
      [] calc.type = "FlatStateCalculator" -> gross * RuleRate(law.rules)

-----------------------------------------------------------------------------
(* engine.rs: the per-employee closure of run_payroll *)

IsHours(item) == to_lowercase(item.description) = HOURS

RECURSIVE FindHours(_)
FindHours(items) ==
    IF items = <<>> THEN None
    ELSE IF IsHours(Head(items)) THEN Some(Head(items))
    ELSE FindHours(Tail(items))

RECURSIVE SumOtherAmounts(_, _)
SumOtherAmounts(items, acc) ==
    IF items = <<>> THEN acc
    ELSE SumOtherAmounts(Tail(items),
                         IF IsHours(Head(items)) THEN acc ELSE acc + Head(items).amount)

RECURSIVE SumAllHoursMutant(_, _)
SumAllHoursMutant(items, acc) ==
    IF items = <<>> THEN acc
    ELSE SumAllHoursMutant(Tail(items),
                           IF IsHours(Head(items)) THEN acc + Head(items).amount ELSE acc)

HoursWorkedSummedMutant(employee, pay_items) ==
    IF employee.id \in DOMAIN pay_items
    THEN SumAllHoursMutant(pay_items[employee.id], 0)
    ELSE 0

HoursWorked(employee, pay_items) ==
    LET found == IF employee.id \in DOMAIN pay_items
                 THEN FindHours(pay_items[employee.id])
                 ELSE None
    IN IF found.some THEN found.val.amount ELSE 0

BaseGross(employee, pay_items) ==
    IF employee.pay_frequency = "hourly"
    THEN employee.pay_rate * HoursWorked(employee, pay_items)
    ELSE employee.pay_rate

RECURSIVE SumEveryAmountMutant(_, _)
SumEveryAmountMutant(items, acc) ==
    IF items = <<>> THEN acc
    ELSE SumEveryAmountMutant(Tail(items), acc + Head(items).amount)

ExtraUnfilteredMutant(employee, pay_items) ==
    IF employee.id \in DOMAIN pay_items
    THEN SumEveryAmountMutant(pay_items[employee.id], 0)
    ELSE 0

Extra(employee, pay_items) ==
    IF employee.id \in DOMAIN pay_items
    THEN SumOtherAmounts(pay_items[employee.id], 0)
    ELSE 0

Gross(employee, pay_items) == BaseGross(employee, pay_items) + Extra(employee, pay_items)

ResolveLaw(employee, tl) == OrElse(MapGet(tl, employee.home_region), MapGet(tl, US_FED))

ResolveCalculatorNoFallbackMutant(employee, cs) == MapGet(cs, employee.home_region)

ResolveCalculator(employee, cs) ==
    OrElse(MapGet(cs, employee.home_region), MapGet(cs, US_FED))

Taxes(employee, gross, law, calculator) ==
    IF law.some /\ calculator.some
    THEN calculate(calculator.val, employee, gross, law.val)
    ELSE 0

NetClampedMutant(gross, taxes) == IF gross - taxes < 0 THEN 0 ELSE gross - taxes

Net(gross, taxes) == gross - taxes

EmptyDocument == EmptyMap

Details(law) ==
    IF law.some
    THEN [tax_region |-> law.val.region, tax_version |-> law.val.version]
    ELSE EmptyDocument

ComputeRowDetailsWhenTaxedMutant(employee, pay_items, tl, cs) ==
    LET gross == Gross(employee, pay_items)
        law == ResolveLaw(employee, tl)
        calculator == ResolveCalculator(employee, cs)
        taxes == Taxes(employee, gross, law, calculator)
    IN [employee |-> employee,
        gross |-> gross,
        taxes |-> taxes,
        net |-> Net(gross, taxes),
        details |-> IF calculator.some THEN Details(law) ELSE EmptyDocument]

ComputeRow(employee, pay_items, tl, cs) ==
    LET gross == Gross(employee, pay_items)
        law == ResolveLaw(employee, tl)
        calculator == ResolveCalculator(employee, cs)
        taxes == Taxes(employee, gross, law, calculator)
    IN [employee |-> employee,
        gross |-> gross,
        taxes |-> taxes,
        net |-> Net(gross, taxes),
        details |-> Details(law)]

-----------------------------------------------------------------------------
(* engine.rs: the parallel map and the ordered collect *)

NoRow == [empty |-> TRUE]

Workers(r) == 1..pool[r]

SlotIndexByCompletionMutant(r, i) == Len(completion[r]) + 1

SlotIndex(r, i) == i

CollectInCompletionOrderMutant(r) ==
    [k \in 1..Len(completion[r]) |-> slots[r][completion[r][k]]]

CollectedRows(r) == [i \in 1..Len(input[r].employees) |-> slots[r][i]]

RunErrMutant(r) ==
    IF \E i \in 1..Len(input[r].employees) : slots[r][i].details = EmptyDocument
    THEN [ok |-> FALSE, error |-> "no tax law"]
    ELSE [ok |-> TRUE,
          value |-> [period |-> input[r].pay_period, results |-> CollectedRows(r)]]

RunOutcome(r) ==
    [ok |-> TRUE,
     value |-> [period |-> input[r].pay_period, results |-> CollectedRows(r)]]

NoOutcome == [ok |-> FALSE, error |-> "pending"]

StartedWork(req, r) ==
    /\ pending' = [pending EXCEPT ![r] = 1..Len(req.employees)]
    /\ claimed' = [claimed EXCEPT ![r] = [w \in Workers(r) |-> 0]]
    /\ slots' = [slots EXCEPT ![r] = [i \in 1..Len(req.employees) |-> NoRow]]
    /\ completion' = [completion EXCEPT ![r] = <<>>]

Claim(r, w) ==
    /\ pc[r] = "running"
    /\ w \in Workers(r)
    /\ claimed[r][w] = 0
    /\ \E i \in pending[r] :
         /\ pending' = [pending EXCEPT ![r] = @ \ {i}]
         /\ claimed' = [claimed EXCEPT ![r][w] = i]
    /\ UNCHANGED <<registryVars, lockVars, pc, input, pool, slots, completion,
                   outcome, status>>

Complete(r, w) ==
    /\ pc[r] = "running"
    /\ w \in Workers(r)
    /\ claimed[r][w] # 0
    /\ LET i == claimed[r][w]
       IN /\ slots' = [slots EXCEPT ![r][SlotIndex(r, i)] =
                         ComputeRow(input[r].employees[i], input[r].pay_items,
                                    tax_laws, calculators)]
          /\ completion' = [completion EXCEPT ![r] = Append(@, i)]
    /\ claimed' = [claimed EXCEPT ![r][w] = 0]
    /\ UNCHANGED <<registryVars, lockVars, pc, input, pool, pending, outcome, status>>

Collect(r) ==
    /\ pc[r] = "running"
    /\ pending[r] = {}
    /\ \A w \in Workers(r) : claimed[r][w] = 0
    /\ outcome' = [outcome EXCEPT ![r] = RunOutcome(r)]
    /\ pc' = [pc EXCEPT ![r] = "returned"]
    /\ slots' = [slots EXCEPT ![r] = <<>>]
    /\ UNCHANGED <<registryVars, lockVars, input, pool, pending, claimed, completion,
                   status>>

CallAgain(r) ==
    /\ pc[r] = "called"
    /\ \A q \in Runs \ {r} : pc[q] = "returned"
    /\ pc' = [pc EXCEPT ![r] = "running"]
    /\ StartedWork(input[r], r)
    /\ UNCHANGED <<registryVars, lockVars, input, pool, outcome, status>>

-----------------------------------------------------------------------------
(* Inputs of a direct call of run_payroll (lib.rs exports the engine) *)

Period1 == [start |-> "2025-01-01", end |-> "2025-01-15"]
Period2 == [start |-> "2025-02-01", end |-> "2025-02-15"]

Descriptions ==
    {<<"h", "o", "u", "r", "s">>, <<"H", "o", "U", "R", "s">>, <<"T", "i", "p", "s">>}
Amounts == {-4, 5}
PayItems == [description : Descriptions, amount : Amounts]

Employee(id, region, rate, freq) ==
    [id |-> id, name |-> "n", home_region |-> region, pay_rate |-> rate,
     pay_frequency |-> freq]

Law(region, version, rules) == [region |-> region, version |-> version, rules |-> rules]
Rate(n) == [k \in {"rate"} |-> JsonNumber(n)]
RateNotNumber == [k \in {"rate"} |-> JsonString]

LawOK == Law(US_OK, <<"2025">>, Rate(2))
LawFED == Law(US_FED, <<"2025">>, Rate(1))
LawFEDNoRate == Law(US_FED, <<"2024", "Q1">>, EmptyMap)
LawOKBadRate == Law(US_OK, <<"2024">>, RateNotNumber)

MapsOver(keys, values) == UNION {[d -> values] : d \in SUBSET keys}

DirectLawMaps == MapsOver({US_OK, US_FED}, {LawOK, LawFED, LawFEDNoRate, LawOKBadRate})
DirectCalculatorMaps ==
    MapsOver({US_OK, US_FED}, {UsFederalCalculator, FlatStateCalculator(US_OK)})

\* one employee, every registry shape, at most one pay item
TaxCaseInputs ==
    {[employees |-> <<Employee("1", region, rate, freq)>>,
      pay_items |-> items,
      pay_period |-> Period1] :
        region \in {US_OK, US_ZZ, US_FED}, rate \in {-2, 3},
        freq \in {"hourly", "salary"},
        items \in {EmptyMap} \cup {[k \in {"1"} |-> s] : s \in SeqsUpTo(PayItems, 1)}}

\* one employee, every list of pay items up to MaxItems, filed under its id or another
GrossCaseInputs ==
    {[employees |-> <<Employee("1", US_OK, rate, freq)>>,
      pay_items |-> items,
      pay_period |-> Period1] :
        rate \in {-2, 3}, freq \in {"hourly", "salary"},
        items \in {EmptyMap} \cup
                  {[k \in {id} |-> s] : id \in {"1", "2"}, s \in SeqsUpTo(PayItems, MaxItems)}}

\* several employees (ids may repeat), to exercise the parallel map
ManyEmployees ==
    {Employee("1", US_OK, 3, "salary"), Employee("2", US_ZZ, 3, "hourly"),
     Employee("2", US_OK, -2, "salary")}
ManyItems == [k \in {"2"} |-> <<[description |-> HOURS, amount |-> 5]>>]
ManyCaseInputs ==
    {[employees |-> es, pay_items |-> ManyItems, pay_period |-> p] :
        es \in SeqsUpTo(ManyEmployees, MaxEmployees), p \in {Period1, Period2}}

InitDirect(req, tl, cs) ==
    /\ laws = <<>>
    /\ boot = "library"
    /\ tax_laws = tl
    /\ calculators = cs
    /\ readers = [g \in Registries |-> {}]
    /\ writer = [g \in Registries |-> FALSE]
    /\ writes = 0
    /\ pc = [r \in Runs |-> IF r = 1 THEN "running" ELSE "called"]
    /\ input = [r \in Runs |-> req]
    /\ pool = [r \in Runs |-> IF r = 1 THEN 1 ELSE MaxWorkers]
    /\ pending = [r \in Runs |-> IF r = 1 THEN 1..Len(req.employees) ELSE {}]
    /\ claimed = [r \in Runs |-> [w \in 1..(IF r = 1 THEN 1 ELSE MaxWorkers) |-> 0]]
    /\ slots = [r \in Runs |-> IF r = 1 THEN [i \in 1..Len(req.employees) |-> NoRow]
                                         ELSE <<>>]
    /\ completion = [r \in Runs |-> <<>>]
    /\ outcome = [r \in Runs |-> NoOutcome]
    /\ status = [r \in Runs |-> 0]

Init ==
    \/ \E req \in TaxCaseInputs, tl \in DirectLawMaps, cs \in DirectCalculatorMaps :
         InitDirect(req, tl, cs)
    \/ \E req \in GrossCaseInputs :
         InitDirect(req, [k \in {US_OK} |-> LawOK],
                    [k \in {US_OK} |-> FlatStateCalculator(US_OK)])
    \/ \E req \in ManyCaseInputs, tl \in {EmptyMap, [k \in {US_FED} |-> LawFED]} :
         InitDirect(req, tl, [k \in {US_FED} |-> UsFederalCalculator])

Next ==
    \/ \E r \in Runs, w \in 1..MaxWorkers : Claim(r, w)
    \/ \E r \in Runs, w \in 1..MaxWorkers : Complete(r, w)
    \/ \E r \in Runs : Collect(r)
    \/ \E r \in Runs : CallAgain(r)

Spec == Init /\ [][Next]_vars

-----------------------------------------------------------------------------
(* api.rs: build_router *)

RECURSIVE BuildLawMap(_, _)
BuildLawMap(ls, law_map) ==
    IF ls = <<>> THEN law_map
    ELSE BuildLawMap(Tail(ls),
                     MapInsert(law_map, FormatKey(Head(ls).region, Head(ls).version),
                               Head(ls)))

BuildCalculators(law_map) ==
    LET regions == {law_map[k].region : k \in DOMAIN law_map}
    IN [x \in {US_FED} \cup (regions \ {US_FED}) |->
          IF x = US_FED THEN UsFederalCalculator ELSE FlatStateCalculator(x)]

BuildRouter ==
    /\ boot = "start"
    /\ tax_laws' = BuildLawMap(laws, EmptyMap)
    /\ calculators' = BuildCalculators(BuildLawMap(laws, EmptyMap))
    /\ boot' = "serving"
    /\ UNCHANGED <<laws, lockVars, pc, input, pool, workVars, outcome, status>>

-----------------------------------------------------------------------------
(* api.rs: calculate_handler, one handler per run *)

Receive(h, req) ==
    /\ boot = "serving"
    /\ pc[h] = "idle"
    /\ input' = [input EXCEPT ![h] = req]
    /\ pc' = [pc EXCEPT ![h] = "decoded"]
    /\ UNCHANGED <<registryVars, lockVars, pool, workVars, outcome, status>>

AcquireLaws(h) ==
    /\ pc[h] = "decoded"
    /\ ~writer["tax_laws"]
    /\ readers' = [readers EXCEPT !["tax_laws"] = @ \cup {h}]
    /\ pc' = [pc EXCEPT ![h] = "lawsLocked"]
    /\ UNCHANGED <<registryVars, writer, writes, input, pool, workVars, outcome, status>>

AcquireCalculators(h) ==
    /\ pc[h] = "lawsLocked"
    /\ ~writer["calculators"]
    /\ readers' = [readers EXCEPT !["calculators"] = @ \cup {h}]
    /\ pc' = [pc EXCEPT ![h] = "calcsLocked"]
    /\ UNCHANGED <<registryVars, writer, writes, input, pool, workVars, outcome, status>>

CallRunPayrollUnguardedMutant(h) ==
    /\ pc[h] = "calcsLocked"
    /\ pc' = [pc EXCEPT ![h] = "running"]
    /\ readers' = [g \in Registries |-> readers[g] \ {h}]
    /\ StartedWork(input[h], h)
    /\ UNCHANGED <<registryVars, writer, writes, input, pool, outcome, status>>

CallRunPayroll(h) ==
    /\ pc[h] = "calcsLocked"
    /\ pc' = [pc EXCEPT ![h] = "running"]
    /\ StartedWork(input[h], h)
    /\ UNCHANGED <<registryVars, lockVars, input, pool, outcome, status>>

Respond(h) ==
    /\ pc[h] = "returned"
    /\ boot = "serving"
    /\ status' = [status EXCEPT ![h] = IF outcome[h].ok THEN 200 ELSE 500]
    /\ readers' = [g \in Registries |-> readers[g] \ {h}]
    /\ pc' = [pc EXCEPT ![h] = "responded"]
    /\ UNCHANGED <<registryVars, writer, writes, input, pool, workVars, outcome>>

-----------------------------------------------------------------------------
(* api.rs: AppState - a holder of the state handle taking a registry's write lock *)

AcquireWrite(g) ==
    /\ boot = "serving"
    /\ writes < MaxWrites
    /\ ~writer[g]
    /\ readers[g] = {}
    /\ writer' = [writer EXCEPT ![g] = TRUE]
    /\ writes' = writes + 1
    /\ UNCHANGED <<registryVars, readers, pc, input, pool, workVars, outcome, status>>

MutateLaws(m) ==
    /\ writer["tax_laws"]
    /\ tax_laws' = m
    /\ tax_laws' # tax_laws
    /\ UNCHANGED <<laws, boot, calculators, lockVars, pc, input, pool, workVars,
                   outcome, status>>

MutateCalculators(m) ==
    /\ writer["calculators"]
    /\ calculators' = m
    /\ calculators' # calculators
    /\ UNCHANGED <<laws, boot, tax_laws, lockVars, pc, input, pool, workVars,
                   outcome, status>>

ReleaseWrite(g) ==
    /\ writer[g]
    /\ writer' = [writer EXCEPT ![g] = FALSE]
    /\ UNCHANGED <<registryVars, readers, writes, pc, input, pool, workVars, outcome,
                   status>>

-----------------------------------------------------------------------------
(* Inputs of the service: the loaded laws and the decoded requests *)

US == <<"US">>
LoadableLaws ==
    {Law(region, version, Rate(2)) :
        region \in {US, US_OK, US_FED}, version \in {<<"1">>, <<"OK", "1">>, <<"FED">>}}

ApiRequests ==
    {[employees |-> <<>>, pay_items |-> EmptyMap, pay_period |-> Period2]} \cup
    {[employees |-> <<Employee("1", region, 3, "salary")>>,
      pay_items |-> EmptyMap,
      pay_period |-> Period1] : region \in {US, US_OK, US_ZZ, <<"US", "OK", "1">>}} \cup
    {[employees |-> <<Employee("1", US_ZZ, 3, "hourly")>>,
      pay_items |-> items,
      pay_period |-> Period1] :
        items \in {EmptyMap, [k \in {"1"} |-> <<[description |-> <<"T", "i", "p", "s">>,
                                                 amount |-> 5]>>]}}

InitService(ls, handlers) ==
    /\ laws = ls
    /\ boot = "start"
    /\ tax_laws = EmptyMap
    /\ calculators = EmptyMap
    /\ readers = [g \in Registries |-> {}]
    /\ writer = [g \in Registries |-> FALSE]
    /\ writes = 0
    /\ pc = [r \in Runs |-> IF r \in handlers THEN "idle" ELSE "off"]
    /\ input = [r \in Runs |-> [employees |-> <<>>, pay_items |-> EmptyMap,
                                 pay_period |-> Period1]]
    /\ pool = [r \in Runs |-> MaxWorkers]
    /\ pending = [r \in Runs |-> {}]
    /\ claimed = [r \in Runs |-> [w \in 1..MaxWorkers |-> 0]]
    /\ slots = [r \in Runs |-> <<>>]
    /\ completion = [r \in Runs |-> <<>>]
    /\ outcome = [r \in Runs |-> NoOutcome]
    /\ status = [r \in Runs |-> 0]

HandlerStep(h) ==
    \/ \E req \in ApiRequests : Receive(h, req)
    \/ AcquireLaws(h)
    \/ AcquireCalculators(h)
    \/ CallRunPayroll(h)
    \/ \E w \in 1..MaxWorkers : Claim(h, w)
    \/ \E w \in 1..MaxWorkers : Complete(h, w)
    \/ Collect(h)
    \/ Respond(h)

\* startup from any loaded set, then one request at a time
InitBoot == \E ls \in SeqsUpTo(LoadableLaws, MaxLaws) : InitService(ls, {1})

NextBoot ==
    \/ BuildRouter
    \/ \E h \in Runs : HandlerStep(h)

SpecBoot == InitBoot /\ [][NextBoot]_vars

\* concurrent requests and registry writers
WrittenLawMaps ==
    {MapInsert(tax_laws, US_OK, LawOK)} \cup {MapRemove(tax_laws, k) : k \in DOMAIN tax_laws}
WrittenCalculatorMaps ==
    {MapInsert(calculators, US_ZZ, FlatStateCalculator(US_ZZ))} \cup
    {MapRemove(calculators, k) : k \in DOMAIN calculators}

InitApi ==
    \E ls \in {<<>>, <<Law(US_FED, <<"1">>, Rate(2))>>,
                <<Law(US, <<"OK">>, Rate(2))>>} : InitService(ls, Runs)

NextApi ==
    \/ BuildRouter
    \/ \E h \in Runs : HandlerStep(h)
    \/ \E g \in Registries : AcquireWrite(g)
    \/ \E m \in WrittenLawMaps : MutateLaws(m)
    \/ \E m \in WrittenCalculatorMaps : MutateCalculators(m)
    \/ \E g \in Registries : ReleaseWrite(g)

SpecApi == InitApi /\ [][NextApi]_vars

-----------------------------------------------------------------------------
(* Properties of run_payroll, checked under Spec *)

Returned(r) == pc[r] \in {"returned", "responded"}
Results(r) == outcome[r].value.results
Employees(r) == input[r].employees

\* C1: whatever the completion order of the workers, a returned run has exactly one
\* row per employee of the request and row i carries the i-th employee (same id,
\* same value): nothing is dropped, duplicated or reordered.
C1_RowsInInputOrder ==
    \A r \in Runs :
        Returned(r) =>
            /\ outcome[r].ok
            /\ Len(Results(r)) = Len(Employees(r))
            /\ \A i \in 1..Len(Employees(r)) :
                 /\ Results(r)[i].employee = Employees(r)[i]
                 /\ Results(r)[i].employee.id = Employees(r)[i].id

\* C1 witness: a run whose workers finished the second employee before the first,
\* the two having different ids, has returned.
C1_Witness ==
    /\ pc[2] = "returned"
    /\ Len(Employees(2)) = 2
    /\ Employees(2)[1].id # Employees(2)[2].id
    /\ completion[2] = <<2, 1>>

\* the law and the calculator the claim's text prescribes for an employee
ExpectedLaw(e) ==
    IF e.home_region \in DOMAIN tax_laws THEN Some(tax_laws[e.home_region])
    ELSE IF US_FED \in DOMAIN tax_laws THEN Some(tax_laws[US_FED])
    ELSE None

ExpectedCalculator(e) ==
    IF e.home_region \in DOMAIN calculators THEN Some(calculators[e.home_region])
    ELSE IF US_FED \in DOMAIN calculators THEN Some(calculators[US_FED])
    ELSE None

\* C3: the law is tax_laws[home_region] else tax_laws["US-FED"], the calculator is
\* calculators[home_region] else calculators["US-FED"], independently; taxes is
\* calculator.calculate(employee, gross, law) when both exist and 0 otherwise; with
\* both registries empty every row has taxes = 0 and net = gross.
C3_RegionDispatch ==
    \A r \in Runs :
        Returned(r) =>
            \A i \in 1..Len(Results(r)) :
                LET row == Results(r)[i]
                    l == ExpectedLaw(row.employee)
                    c == ExpectedCalculator(row.employee)
                IN /\ (l.some /\ c.some) =>
                        row.taxes = calculate(c.val, row.employee, row.gross, l.val)
                   /\ (~l.some \/ ~c.some) => row.taxes = 0
                   /\ (DOMAIN tax_laws = {} /\ DOMAIN calculators = {}) =>
                        (row.taxes = 0 /\ row.net = row.gross)

\* C3 witness: a row taxed by the regional calculator paired with the federal law
\* (the home region has a calculator but no law), with a non-zero tax.
C3_Witness ==
    /\ pc[1] = "returned"
    /\ Len(Results(1)) = 1
    /\ Employees(1)[1].home_region = US_OK
    /\ US_OK \notin DOMAIN tax_laws
    /\ US_OK \in DOMAIN calculators
    /\ US_FED \in DOMAIN tax_laws
    /\ calculators[US_OK].type = "FlatStateCalculator"
    /\ Results(1)[1].taxes # 0

ItemsOf(e, r) ==
    IF e.id \in DOMAIN input[r].pay_items THEN input[r].pay_items[e.id] ELSE <<>>

HoursIndices(items) == {j \in 1..Len(items) : to_lowercase(items[j].description) = HOURS}

FirstHoursAmount(items) ==
    IF HoursIndices(items) = {} THEN 0
    ELSE items[CHOOSE j \in HoursIndices(items) :
                   \A k \in HoursIndices(items) : j <= k].amount

RECURSIVE SumOver(_, _)
SumOver(items, idx) ==
    IF idx = {} THEN 0
    ELSE LET j == CHOOSE k \in idx : TRUE
         IN items[j].amount + SumOver(items, idx \ {j})

NonHoursTotal(items) == SumOver(items, (1..Len(items)) \ HoursIndices(items))

\* C4: for an Hourly employee gross = pay_rate * h + extra, h the amount of the first
\* item described "hours" (any letter case) or 0 when there is none or no entry for
\* the id, extra the total of the items not described "hours"; a later "hours" item
\* counts for nothing.
C4_HourlyGross ==
    \A r \in Runs :
        Returned(r) =>
            \A i \in 1..Len(Results(r)) :
                LET row == Results(r)[i]
                    items == ItemsOf(row.employee, r)
                IN row.employee.pay_frequency = "hourly" =>
                     row.gross = row.employee.pay_rate * FirstHoursAmount(items)
                                 + NonHoursTotal(items)

\* C4 witness: an Hourly row computed from two "hours" items of different amounts
\* (the first in mixed case) followed by another item.
C4_Witness ==
    /\ pc[1] = "returned"
    /\ Len(Results(1)) = 1
    /\ Employees(1)[1].pay_frequency = "hourly"
    /\ LET items == ItemsOf(Employees(1)[1], 1)
       IN /\ Len(items) = 3
          /\ items[1].description = <<"H", "o", "U", "R", "s">>
          /\ items[2].description = HOURS
          /\ items[1].amount # items[2].amount
          /\ items[3].description = <<"T", "i", "p", "s">>

\* C11: for a Salary employee gross = pay_rate + the total of the items of its
\* pay_items entry not described "hours" (any letter case); an "hours" item is neither
\* multiplied by the rate nor added, and with no entry for the id gross = pay_rate.
C11_SalaryGross ==
    \A r \in Runs :
        Returned(r) =>
            \A i \in 1..Len(Results(r)) :
                LET row == Results(r)[i]
                    e == row.employee
                IN e.pay_frequency = "salary" =>
                     /\ row.gross = e.pay_rate + NonHoursTotal(ItemsOf(e, r))
                     /\ e.id \notin DOMAIN input[r].pay_items => row.gross = e.pay_rate

\* C11 witness: a Salary row computed from an entry holding an "hours" item (in mixed
\* case) between two other items; the hours amount left no trace in gross.
C11_Witness ==
    /\ pc[1] = "returned"
    /\ Len(Results(1)) = 1
    /\ Employees(1)[1].pay_frequency = "salary"
    /\ LET items == ItemsOf(Employees(1)[1], 1)
       IN /\ Len(items) = 3
          /\ items[1].description = <<"T", "i", "p", "s">>
          /\ items[2].description = <<"H", "o", "U", "R", "s">>
          /\ items[3].description = <<"T", "i", "p", "s">>
          /\ Results(1)[1].gross =
                Employees(1)[1].pay_rate + items[1].amount + items[3].amount

\* C5: in every row net = gross - taxes, unclamped, also for a negative gross, a tax
\* above gross, and a tax of 0 by fallback (then net = gross).
C5_NetIsGrossMinusTaxes ==
    \A r \in Runs :
        Returned(r) =>
            \A i \in 1..Len(Results(r)) :
                LET row == Results(r)[i]
                IN /\ row.net = row.gross - row.taxes
                   /\ row.taxes = 0 => row.net = row.gross

\* C5 witness: a row whose tax exceeds a positive gross, so that net is negative.
C5_Witness ==
    /\ pc[1] = "returned"
    /\ Len(Results(1)) = 1
    /\ Results(1)[1].gross > 0
    /\ Results(1)[1].taxes > Results(1)[1].gross
    /\ Results(1)[1].net < 0

-----------------------------------------------------------------------------
(* Properties of the service, checked under SpecBoot and SpecApi *)

StartupRegistry == boot = "serving" /\ writes = 0

LoadedRegions == {laws[j].region : j \in 1..Len(laws)}

\* C2: with the registry built at startup, the engine's lookup by home_region yields
\* a law of that region whenever one was loaded, and the "US-FED" fallback yields the
\* federal law whenever one was loaded; the row's details.tax_region names that law.
C2_LookupByRegionFindsLoadedLaw ==
    StartupRegistry =>
        /\ \A region \in LoadedRegions :
              /\ MapGet(tax_laws, region).some
              /\ MapGet(tax_laws, region).val.region = region
        /\ \A h \in Runs :
              Returned(h) =>
                \A i \in 1..Len(Results(h)) :
                    LET row == Results(h)[i]
                        home == row.employee.home_region
                    IN /\ home \in LoadedRegions =>
                            /\ row.details # EmptyDocument
                            /\ row.details["tax_region"] = home
                       /\ (home \notin LoadedRegions /\ US_FED \in LoadedRegions) =>
                            /\ row.details # EmptyDocument
                            /\ row.details["tax_region"] = US_FED

\* C7: a run never fails: it returns Ok with the request's pay period unchanged and
\* one row per employee, whatever the request and the registries, so the handler
\* answers 200 and never 500.
C7_RunNeverFails ==
    \A h \in Runs :
        /\ Returned(h) =>
              /\ outcome[h].ok
              /\ outcome[h].value.period = input[h].pay_period
              /\ Len(Results(h)) = Len(Employees(h))
        /\ pc[h] = "responded" => status[h] = 200
        /\ status[h] # 500

\* C7 witness: with both registries empty, a request for an hourly employee of an
\* unknown region with no pay items has been answered 200 with one row.
C7_Witness ==
    /\ DOMAIN tax_laws = {} /\ DOMAIN calculators = {}
    /\ pc[1] = "responded"
    /\ status[1] = 200
    /\ Len(Employees(1)) = 1
    /\ Employees(1)[1].pay_frequency = "hourly"
    /\ Employees(1)[1].home_region = US_ZZ
    /\ input[1].pay_items = EmptyMap
    /\ Len(Results(1)) = 1
    /\ Results(1)[1].details = EmptyDocument

InFlight(h) == pc[h] \in {"running", "returned"}

ReadAccessHeld ==
    \A h \in Runs : InFlight(h) => \A g \in Registries : h \in readers[g]

WriteExcludesRead == \A g \in Registries : writer[g] => readers[g] = {}

RegistriesFrozenInFlight ==
    (\E h \in Runs : InFlight(h)) =>
        (tax_laws' = tax_laws /\ calculators' = calculators)

\* C9: from the call of run_payroll until the handler is done with its result the
\* handler holds a read guard on both registries; a write guard excludes every read
\* guard; and no step changes either registry while any run is in flight.
C9_SharedReadNoMutationInFlight ==
    /\ [](ReadAccessHeld /\ WriteExcludesRead)
    /\ [][RegistriesFrozenInFlight]_vars

\* C9 witness: two requests run at the same time under shared read access, on
\* registries that a writer changed earlier.
C9_Witness ==
    /\ pc[1] = "running" /\ pc[2] = "running"
    /\ \A g \in Registries : readers[g] = {1, 2}
    /\ writes > 0
    /\ tax_laws # BuildLawMap(laws, EmptyMap)
    /\ pending[1] = {} /\ pending[2] # {}

\* C10: after build_router the calculator registry holds the federal calculator
\* under "US-FED", a flat-rate calculator whose region_code is its key under every
\* other region of a loaded law, and nothing else.
C10_CalculatorsCoverLoadedRegions ==
    StartupRegistry =>
        /\ US_FED \in DOMAIN calculators
        /\ calculators[US_FED] = UsFederalCalculator
        /\ \A region \in LoadedRegions \ {US_FED} :
              /\ region \in DOMAIN calculators
              /\ calculators[region].type = "FlatStateCalculator"
              /\ region_code(calculators[region]) = region
        /\ DOMAIN calculators \subseteq LoadedRegions \cup {US_FED}

====
